---------------------------- MODULE Spec2Model ----------------------------
(***************************************************************************)
(* Model of the "swift-plus" storage driver (package swiftplus): a        *)
(* filesystem-like facade over a PostgreSQL metadata store (tables `files` *)
(* and `segments`) and a Swift object store.                               *)
(*                                                                         *)
(* Every driver call and every writer call is one atomic action: the code  *)
(* holds no locks and no transactions, and the interleavings that matter   *)
(* are those of whole calls made by different callers and writers.         *)
(* Read-only calls (GetContent, Stat, List, Reader) are functions of the   *)
(* two stores and are modelled as operators over the current state.        *)
(* The mtime column is not modelled: no decision in the code reads it.     *)
(***************************************************************************)
EXTENDS Integers, Sequences, FiniteSets, TLC

VARIABLES
  files,     \* rows of the SQL table `files`
  segments,  \* rows of the SQL table `segments`
  objects,   \* the Swift container: object name -> object
  writers,   \* the plusWriter objects handed out so far, by index
  nextLoc,   \* how many locations plusRandLocation has produced
  todo,      \* number of calls the callers will still make
  faults,    \* number of requests to Swift or the database that failed
  ret        \* the last call and what it returned

vars == <<files, segments, objects, writers, nextLoc, todo, faults, ret>>

---------------------------------------------------------------------------
(* Bounds and inputs *)

MaxOps == 3
MaxWriters == 2
MaxFaults == 1

maxInlineSizeBytes == 256

Root == <<>>

\* The logical paths callers pass in (never the root: base.Base rejects it
\* for every call but Stat and List).
Paths == { <<"a">>, <<"b">>, <<"a", "b">>, <<"a", "b", "c">> }

\* The order in which the rows of a directory listing are visited.  In this
\* universe of paths a directory has at most one child row, so the order a
\* `SELECT ... WHERE dirname = $1` without ORDER BY picks makes no difference.
RowOrder == << <<"a">>, <<"b">>, <<"a", "b">>, <<"a", "b", "c">> >>

\* The (source, destination) pairs given to Move: a destination apart from
\* the source, one under a directory that may be missing, the source itself,
\* an ancestor of the source, a descendant of the source.
MovePairs ==
  { << <<"a">>, <<"b">> >>,
    << <<"b">>, <<"a", "b">> >>,
    << <<"a", "b">>, <<"b">> >>,
    << <<"a", "b">>, <<"a", "b">> >>,
    << <<"a", "b", "c">>, <<"a", "b">> >>,
    << <<"a">>, <<"a", "b">> >> }

Small == <<>>
Inline256 == [i \in 1..maxInlineSizeBytes |-> i % 7]
Large257 == [i \in 1..(maxInlineSizeBytes + 1) |-> (3 * i) % 5]

\* Byte strings given to PutContent: empty, exactly at the inline limit,
\* one byte above it.
Contents == { Small, Inline256, Large257 }

\* Buffers given to plusWriter.Write.
Bufs == { <<1>>, <<2, 3>> }

\* The values plusRandLocation returns, in the order it returns them.
LocNames == << "L1", "L2", "L3", "L4", "L5", "L6", "L7", "L8" >>

ObjectPrefix == "pfx"

---------------------------------------------------------------------------
(* Errors *)

Nil == [kind |-> "nil", path |-> Root]
PathNotFoundError(p) == [kind |-> "PathNotFound", path |-> p]
errCancelled == [kind |-> "already cancelled", path |-> Root]
errClosed == [kind |-> "already closed", path |-> Root]
errCommitted == [kind |-> "already committed", path |-> Root]
ErrSwift == [kind |-> "swift failure", path |-> Root]
ErrDuplicateKey == [kind |-> "pq: duplicate key", path |-> Root]
ErrDB == [kind |-> "pq: failure", path |-> Root]
ErrUnsupportedMethod == [kind |-> "unsupported method", path |-> Root]

setReportedPath(err, p) ==
  IF err.kind = "PathNotFound" THEN PathNotFoundError(p) ELSE err

---------------------------------------------------------------------------
(* Paths: a path is the sequence of its components, "/" is the empty one *)

Dir(p) == IF Len(p) <= 1 THEN Root ELSE SubSeq(p, 1, Len(p) - 1)
Base(p) == IF p = Root THEN "/" ELSE p[Len(p)]
Join(d, b) == IF b = "/" THEN d ELSE Append(d, b)

IsPrefix(p, q) == Len(p) <= Len(q) /\ SubSeq(q, 1, Len(p)) = p
Below(p, q) == IsPrefix(p, q) /\ p # q   \* q lies strictly below p

prependPrefix(prefix, name) ==
  IF prefix = "" THEN name ELSE <<prefix>> \o name

---------------------------------------------------------------------------
(* Table `files` *)

\* What readFileInfo leaves in `fi` when the query finds no row: the zero
\* fileInfo; SizeBytes -2 marks that err is sql.ErrNoRows.
NoRows ==
  [DirName |-> Root, BaseName |-> "", SizeBytes |-> -2,
   Contents |-> <<>>, Location |-> ""]

HasRow(fs, p) == \E r \in fs : r.DirName = Dir(p) /\ r.BaseName = Base(p)

readFileInfo(fs, p) ==
  IF HasRow(fs, p)
  THEN CHOOSE r \in fs : r.DirName = Dir(p) /\ r.BaseName = Base(p)
  ELSE NoRows

FiPath(fi) == Join(fi.DirName, fi.BaseName)
IsDir(fi) == fi.SizeBytes < 0
FiObjectPath(fi) == <<fi.Location, "content">>

DirRow(p) ==
  [DirName |-> Dir(p), BaseName |-> Base(p), SizeBytes |-> -1,
   Contents |-> <<>>, Location |-> ""]

RECURSIVE mkdirAll(_, _)
mkdirAll(fs, p) ==
  IF p = Root THEN fs
  ELSE mkdirAll(IF HasRow(fs, p) THEN fs ELSE fs \cup {DirRow(p)}, Dir(p))

\* An INSERT that leaves a row alone that has the key already.
writeFileInfo_InsertOnly(fs, fi) ==
  mkdirAll(IF \E r \in fs : r.DirName = fi.DirName /\ r.BaseName = fi.BaseName
           THEN fs ELSE fs \cup {fi},
           fi.DirName)

\* INSERT ... ON CONFLICT (dirname, basename) DO UPDATE of every column,
\* then mkdirAll of the directory.
writeFileInfo(fs, fi) ==
  mkdirAll({r \in fs : ~(r.DirName = fi.DirName /\ r.BaseName = fi.BaseName)}
             \cup {fi},
           fi.DirName)

---------------------------------------------------------------------------
(* The Swift container *)

\* The error of a request Swift did not serve: a 404 that names the object
\* (or prefix) of the request, or some other failure.
SwiftError(nf, name) == IF nf THEN PathNotFoundError(name) ELSE ErrSwift

swiftDeleteAll(objs, prefix) ==
  [k \in {n \in DOMAIN objs : ~Below(prefix, n)} |-> objs[k]]

swiftPut(objs, name, obj) ==
  [k \in DOMAIN objs \cup {name} |-> IF k = name THEN obj ELSE objs[k]]

DataObject(bytes) == [kind |-> "data", bytes |-> bytes, segs |-> <<>>]
ManifestObject(segs) == [kind |-> "slo", bytes |-> <<>>, segs |-> segs]

SegObjectPath(s) ==
  prependPrefix(s.Prefix, <<s.Location>>) \o <<ToString(s.Number)>>

RECURSIVE ConcatSegments(_, _)
ConcatSegments(objs, segs) ==
  IF segs = <<>> THEN <<>>
  ELSE objs[SegObjectPath(Head(segs))].bytes
         \o ConcatSegments(objs, Tail(segs))

\* Reading an object from `offset` on: the bytes of a plain object, the
\* segments of a manifest in the manifest's order.
swiftReader(objs, name, offset) ==
  IF name \notin DOMAIN objs
  THEN [err |-> PathNotFoundError(name), data |-> <<>>]
  ELSE LET o == objs[name]
           whole == IF o.kind = "data" THEN o.bytes
                    ELSE ConcatSegments(objs, o.segs)
       IN IF o.kind = "slo"
             /\ \E i \in 1..Len(o.segs) :
                  SegObjectPath(o.segs[i]) \notin DOMAIN objs
          THEN [err |-> ErrSwift, data |-> <<>>]
          ELSE [err |-> Nil,
                data |-> SubSeq(whole, offset + 1, Len(whole))]

RECURSIVE SumBytes(_)
SumBytes(b) == IF b = <<>> THEN 0 ELSE Head(b) + SumBytes(Tail(b))

\* The hash Swift returns for an uploaded object.
HashOf(b) == (31 * Len(b) + SumBytes(b)) % 251

\* The temporary URL Swift issues for an object.
MakeTempURL(name) == <<"tempurl">> \o name

---------------------------------------------------------------------------
(* Read-only driver calls *)

GetContent(p) ==
  LET fi == readFileInfo(files, p)
  IN IF fi = NoRows \/ IsDir(fi)
     THEN [err |-> PathNotFoundError(p), data |-> <<>>, reads |-> 0]
     ELSE IF fi.SizeBytes = 0 THEN [err |-> Nil, data |-> <<>>, reads |-> 0]
     ELSE IF Len(fi.Contents) > 0
     THEN [err |-> Nil, data |-> fi.Contents, reads |-> 0]
     ELSE LET r == swiftReader(objects,
                     prependPrefix(ObjectPrefix, FiObjectPath(fi)), 0)
          IN [err |-> setReportedPath(r.err, FiPath(fi)),
              data |-> r.data, reads |-> 1]

\* Reader without its fast path.
OffsetExceedsSize_Never(offset, fi) == FALSE

\* The fast path of Reader: the offset lies beyond the end of the file.
OffsetExceedsSize(offset, fi) == offset > fi.SizeBytes

Reader(p, offset) ==
  LET fi == readFileInfo(files, p)
  IN IF fi = NoRows \/ IsDir(fi)
     THEN [err |-> PathNotFoundError(p), data |-> <<>>, reads |-> 0]
     ELSE IF OffsetExceedsSize(offset, fi)
     THEN [err |-> Nil, data |-> <<>>, reads |-> 0]
     ELSE IF fi.Location = ""
     THEN [err |-> Nil,
           data |-> IF offset > 0
                    THEN IF offset > Len(fi.Contents) THEN <<>>
                         ELSE SubSeq(fi.Contents, offset + 1, Len(fi.Contents))
                    ELSE fi.Contents,
           reads |-> 0]
     ELSE LET r == swiftReader(objects,
                     prependPrefix(ObjectPrefix, FiObjectPath(fi)), offset)
          IN [err |-> setReportedPath(r.err, FiPath(fi)),
              data |-> r.data, reads |-> 1]

Stat(p) ==
  IF p = Root
  THEN [err |-> Nil, size |-> -1, isDir |-> TRUE]
  ELSE LET fi == readFileInfo(files, p)
       IN IF fi = NoRows
          THEN [err |-> PathNotFoundError(p), size |-> 0, isDir |-> FALSE]
          ELSE [err |-> Nil, size |-> fi.SizeBytes, isDir |-> IsDir(fi)]

List(p) ==
  [err |-> Nil,
   names |-> {Join(p, r.BaseName) : r \in {x \in files : x.DirName = p}}]

\* URLFor that asks Swift for a URL whatever the row holds.
URLFor_NoTierCheck(p, ok, nf) ==
  LET fi == readFileInfo(files, p)
      name == prependPrefix(ObjectPrefix, FiObjectPath(fi))
  IN IF fi = NoRows THEN [err |-> PathNotFoundError(p), url |-> <<>>]
     ELSE IF ok THEN [err |-> Nil, url |-> MakeTempURL(name)]
     ELSE [err |-> SwiftError(nf, name), url |-> <<>>]

\* URLFor; ok says whether Swift issues the URL, nf whether it fails with
\* a 404.
URLFor(p, ok, nf) ==
  LET fi == readFileInfo(files, p)
      name == prependPrefix(ObjectPrefix, FiObjectPath(fi))
  IN IF fi = NoRows THEN [err |-> PathNotFoundError(p), url |-> <<>>]
     ELSE IF fi.Location = "" THEN [err |-> ErrUnsupportedMethod, url |-> <<>>]
     ELSE IF ok THEN [err |-> Nil, url |-> MakeTempURL(name)]
     ELSE [err |-> SwiftError(nf, name), url |-> <<>>]

---------------------------------------------------------------------------
(* deleteBlobs and deleteDownwards work on the pair of stores `st`:       *)
(* st.budget is the number of DeleteAll calls Swift still answers before  *)
(* one fails (-1: none fails), st.nf whether that one fails with a 404,   *)
(* st.err the error that stopped the work.  st.segments is the table of   *)
(* segments, which no statement of the delete touches.  st.steps lists    *)
(* the table `files` as it is after each DELETE statement, in order.      *)

\* A deleteBlobs that purges the segment rows of the location as well.
deleteBlobs_PurgesSegments(st, fi) ==
  IF fi.Location = "" THEN st
  ELSE IF st.budget = 0
  THEN [st EXCEPT !.err = SwiftError(st.nf,
                            prependPrefix(ObjectPrefix, <<fi.Location>>))]
  ELSE [st EXCEPT
          !.objects = swiftDeleteAll(st.objects,
                        prependPrefix(ObjectPrefix, <<fi.Location>>)),
          !.segments = {r \in st.segments : r.Location # fi.Location},
          !.budget = IF st.budget > 0 THEN st.budget - 1 ELSE st.budget]

deleteBlobs(st, fi) ==
  IF fi.Location = "" THEN st
  ELSE IF st.budget = 0
  THEN [st EXCEPT !.err = SwiftError(st.nf,
                            prependPrefix(ObjectPrefix, <<fi.Location>>))]
  ELSE [st EXCEPT
          !.objects = swiftDeleteAll(st.objects,
                        prependPrefix(ObjectPrefix, <<fi.Location>>)),
          !.budget = IF st.budget > 0 THEN st.budget - 1 ELSE st.budget]

RECURSIVE deleteDownwards(_, _)
RECURSIVE deleteRows(_, _)

\* The loop over the rows of the directory listing.
deleteRows(st, rows) ==
  IF rows = <<>> THEN st
  ELSE LET st1 == deleteDownwards(st, Head(rows))
       IN IF st1.err # Nil THEN st1 ELSE deleteRows(st1, Tail(rows))

deleteDownwards(st, fi) ==
  LET st1 == deleteBlobs(st, fi)
      IsChild(q) == HasRow(st1.files, q) /\ Dir(q) = FiPath(fi)
      kids == SelectSeq(RowOrder, IsChild)
      rows == [i \in 1..Len(kids) |-> readFileInfo(st1.files, kids[i])]
      st2 == IF IsDir(fi) THEN deleteRows(st1, rows) ELSE st1
  IN IF st1.err # Nil THEN st1
     ELSE IF st2.err # Nil THEN st2
     ELSE LET left == {r \in st2.files :
                         ~(r.DirName = fi.DirName
                             /\ r.BaseName = fi.BaseName)}
          IN [st2 EXCEPT !.files = left, !.steps = Append(@, left)]

Stores(budget, nf) ==
  [files |-> files, objects |-> objects, segments |-> segments,
   budget |-> budget, nf |-> nf, err |-> Nil, steps |-> <<>>]

\* How many DeleteAll calls succeed before one fails; -1: all succeed.  No
\* call in this universe of paths makes more than one DeleteAll.
DeleteBudgets == {-1, 0}

---------------------------------------------------------------------------
(* Table `segments` *)

HasSegment(sg, loc, num) ==
  \E r \in sg : r.Location = loc /\ r.Number = num

RECURSIVE SortByNumber(_)
SortByNumber(rows) ==
  IF rows = {} THEN <<>>
  ELSE LET m == CHOOSE r \in rows : \A x \in rows : r.Number <= x.Number
       IN <<m>> \o SortByNumber(rows \ {m})

\* SELECT ... FROM segments WHERE location = $1 ORDER BY number
readSegmentInfo(sg, location) ==
  IF location = "" THEN <<>>
  ELSE SortByNumber({r \in sg : r.Location = location})

---------------------------------------------------------------------------
(* Bookkeeping of the last call *)

NoRet ==
  [op |-> "", wid |-> 0, path |-> Root, dst |-> Root, data |-> <<>>,
   err |-> Nil, n |-> 0, writes |-> 0, prev |-> "", term |-> ""]

\* What kind of record a row is.
Tier(fi) ==
  IF fi = NoRows THEN "none"
  ELSE IF IsDir(fi) THEN "dir"
  ELSE IF fi.Location # "" THEN "external"
  ELSE IF Len(fi.Contents) > 0 THEN "inline"
  ELSE "empty"

\* Every call is counted, and so is the request that failed in it; a
\* failing request is tried only while the behaviour may still take one.
Count(failed) ==
  /\ todo > 0
  /\ failed => faults < MaxFaults
  /\ todo' = todo - 1
  /\ faults' = IF failed THEN faults + 1 ELSE faults

---------------------------------------------------------------------------
(* Driver calls that change the stores *)

\* The limit compared with >= : contents of exactly the limit go to Swift.
uploadToSwift_AtLimit(contents) == Len(contents) >= maxInlineSizeBytes

\* The limit taken one too high: contents one byte above it stay inline.
uploadToSwift_AboveLimit(contents) == Len(contents) > maxInlineSizeBytes + 1

\* Which tier PutContent stores the contents in.
uploadToSwift(contents) == Len(contents) > maxInlineSizeBytes

\* A PutContent that clears the old record as Move and Writer do.
removePreviousContent_Downwards(st, fi) ==
  IF fi = NoRows THEN st ELSE deleteDownwards(st, fi)

\* The first step of PutContent: if the file exists already, its previous
\* content is removed from Swift.
removePreviousContent(st, fi) ==
  IF fi = NoRows THEN st ELSE deleteBlobs(st, fi)

\* A PutContent that writes the row only once the upload has succeeded.
PutContentRows_UploadFirst(fs, fi, uploaded) ==
  IF uploaded THEN writeFileInfo(fs, fi) ELSE fs

\* The table PutContent leaves once the old blob is removed: writeFileInfo
\* runs before the upload, so the row is there whether or not the upload
\* succeeds; nothing takes it back.
PutContentRows(fs, fi, uploaded) == writeFileInfo(fs, fi)

\* PutContent; budget 0 makes the DeleteAll of the old blob fail, ok says
\* whether the upload to Swift succeeds, nf whether the request that fails
\* does so with a 404.
PutContent(p, contents, budget, ok, nf) ==
  LET old == readFileInfo(files, p)
      st == removePreviousContent(Stores(budget, nf), old)
      toSwift == uploadToSwift(contents)
      fi == [DirName |-> Dir(p), BaseName |-> Base(p),
             SizeBytes |-> Len(contents),
             Contents |-> IF toSwift THEN <<>> ELSE contents,
             Location |-> IF toSwift THEN LocNames[nextLoc + 1] ELSE ""]
      r == [NoRet EXCEPT !.op = "PutContent", !.path = p, !.data = contents,
                         !.prev = Tier(old)]
  IN /\ Count(budget = 0 \/ ~ok)
     /\ toSwift => nextLoc < Len(LocNames)
     /\ budget = 0 => st.err # Nil
     /\ ~ok => (toSwift /\ st.err = Nil)
     /\ nf => (budget = 0 \/ ~ok)
     /\ segments' = st.segments
     /\ UNCHANGED writers
     /\ IF st.err # Nil
        THEN /\ ret' = [r EXCEPT !.err = st.err]
             /\ UNCHANGED <<files, objects, nextLoc>>
        ELSE /\ files' = PutContentRows(files, fi, ~toSwift \/ ok)
             /\ nextLoc' = IF toSwift THEN nextLoc + 1 ELSE nextLoc
             /\ IF ~toSwift
                THEN /\ objects' = st.objects
                     /\ ret' = r
                ELSE IF ok
                THEN /\ objects' = swiftPut(st.objects,
                            prependPrefix(ObjectPrefix, FiObjectPath(fi)),
                            DataObject(contents))
                     /\ ret' = [r EXCEPT !.writes = 1]
                ELSE /\ objects' = st.objects
                     /\ ret' = [r EXCEPT !.writes = 1,
                          !.err = setReportedPath(
                            SwiftError(nf, prependPrefix(ObjectPrefix,
                                                         FiObjectPath(fi))),
                            p)]

\* A Delete that removes the blobs and leaves the row.
DriverDelete_BlobsOnly(st, p) ==
  LET fi == readFileInfo(st.files, p)
  IN IF fi = NoRows THEN st ELSE deleteBlobs(st, fi)

\* p.Delete as a function of the stores.
DriverDelete(st, p) ==
  LET fi == readFileInfo(st.files, p)
  IN IF fi = NoRows THEN st ELSE deleteDownwards(st, fi)

Delete(p, budget, nf) ==
  LET st == DriverDelete(Stores(budget, nf), p)
  IN /\ Count(budget = 0)
     /\ budget = 0 => st.err # Nil
     /\ nf => budget = 0
     /\ files' = st.files
     /\ objects' = st.objects
     /\ ret' = [NoRet EXCEPT !.op = "Delete", !.path = p, !.err = st.err,
                             !.prev = Tier(readFileInfo(files, p))]
     /\ segments' = st.segments
     /\ UNCHANGED <<writers, nextLoc>>

\* An UPDATE that also takes the rows below the source.
MovesRow_WithDescendants(r, fi1) == IsPrefix(FiPath(fi1), FiPath(r))

\* The WHERE clause of Move's UPDATE: the rows that get the new key.
MovesRow(r, fi1) == r.DirName = fi1.DirName /\ r.BaseName = fi1.BaseName

Move(sourcePath, destPath, budget, nf) ==
  LET fi1 == readFileInfo(files, sourcePath)
      fi2 == readFileInfo(files, destPath)
      st == IF fi2 = NoRows THEN Stores(budget, nf)
            ELSE deleteDownwards(Stores(budget, nf), fi2)
      moved == {IF MovesRow(r, fi1)
                THEN [r EXCEPT !.DirName = Dir(destPath),
                               !.BaseName = Base(destPath)]
                ELSE r : r \in st.files}
      r0 == [NoRet EXCEPT !.op = "Move", !.path = sourcePath,
                          !.prev = Tier(fi1)]
  IN /\ Count(budget = 0)
     /\ budget = 0 => (fi1 # NoRows /\ st.err # Nil)
     /\ nf => budget = 0
     /\ segments' = st.segments
     /\ UNCHANGED <<writers, nextLoc>>
     /\ IF fi1 = NoRows
        THEN /\ ret' = [r0 EXCEPT !.err = PathNotFoundError(sourcePath)]
             /\ UNCHANGED <<files, objects>>
        ELSE /\ objects' = st.objects
             /\ ret' = [r0 EXCEPT !.dst = destPath, !.err = st.err]
             /\ files' = IF st.err # Nil THEN st.files
                         ELSE mkdirAll(moved, Dir(destPath))

---------------------------------------------------------------------------
(* plusWriter *)

\* Fields fullPath .. committed are those of the Go struct.  The fields
\* whose names start with h are history: what the writer was opened on and
\* what has been done with it since (hFailed: how many of its Commits
\* failed in Swift or in the database).  bw and bwErr are the bufio.Writer
\* of the bufferedWriter that Driver.Writer wraps around the plusWriter:
\* the bytes it holds and the error it keeps once a write has failed;
\* hSupplied is what the caller has passed to bufferedWriter.Write and hRaw
\* the calls the bufferedWriter has made on the plusWriter, in order.
NewWriter(p, location, segs, appendFlag, old) ==
  [fullPath |-> p, location |-> location, segments |-> segs,
   cancelled |-> FALSE, closed |-> FALSE, committed |-> FALSE,
   hAppend |-> appendFlag,
   hPrev |-> Tier(old),
   hBase |-> GetContent(p),
   hOldLoc |-> old.Location,
   hOldSegs |-> readSegmentInfo(segments, old.Location),
   hOldObject |-> IF prependPrefix(ObjectPrefix, FiObjectPath(old))
                       \in DOMAIN objects
                  THEN objects[prependPrefix(ObjectPrefix, FiObjectPath(old))]
                  ELSE DataObject(<<>>),
   hOpenedAt |-> todo - 1,
   hCalls |-> 0,
   hFailed |-> 0,
   hBufs |-> <<>>,
   hTerm |-> "",
   bw |-> <<>>,
   bwErr |-> Nil,
   hSupplied |-> <<>>,
   hRaw |-> <<>>]

\* A writer that draws a new location even when it appends.
NeedsNewLocation_Always(fi, exists) == TRUE

\* Whether newPlusWriter draws a new location: always, except when it
\* appends to a file that has one.
NeedsNewLocation(fi, exists) == ~exists \/ fi.Location = ""

\* Driver.Writer / newPlusWriter
OpenWriter(p, appendFlag, budget, nf) ==
  LET fi == readFileInfo(files, p)
      exists0 == fi # NoRows
      st == IF exists0 /\ ~appendFlag
            THEN deleteDownwards(Stores(budget, nf), fi)
            ELSE Stores(budget, nf)
      exists == exists0 /\ appendFlag
      fresh == NeedsNewLocation(fi, exists)
      location == IF fresh THEN LocNames[nextLoc + 1] ELSE fi.Location
      rows == readSegmentInfo(segments, location)
      segs == IF exists /\ appendFlag
              THEN [i \in 1..Len(rows) |->
                      [Prefix |-> ObjectPrefix, Location |-> location,
                       Number |-> rows[i].Number,
                       SizeBytes |-> rows[i].SizeBytes,
                       Hash |-> rows[i].Hash]]
              ELSE <<>>
      r0 == [NoRet EXCEPT !.op = "Writer", !.path = p, !.prev = Tier(fi)]
  IN /\ Count(budget = 0)
     /\ Len(writers) < MaxWriters
     /\ budget = 0 => st.err # Nil
     /\ nf => budget = 0
     /\ segments' = st.segments
     /\ files' = st.files
     /\ objects' = st.objects
     /\ IF st.err # Nil
        THEN /\ ret' = [r0 EXCEPT !.err = st.err]
             /\ UNCHANGED <<writers, nextLoc>>
        ELSE /\ fresh => nextLoc < Len(LocNames)
             /\ nextLoc' = IF fresh THEN nextLoc + 1 ELSE nextLoc
             /\ writers' = Append(writers,
                             NewWriter(p, location, segs, appendFlag, fi))
             /\ ret' = [r0 EXCEPT !.wid = Len(writers) + 1]

RECURSIVE SumSizes(_)
SumSizes(segs) ==
  IF segs = <<>> THEN 0 ELSE Head(segs).SizeBytes + SumSizes(Tail(segs))

Size(w) == SumSizes(w.segments)

\* The call is counted in the writer's history.
Called(w) == [w EXCEPT !.hCalls = @ + 1]

\* Numbering that leaves one number out after the last segment.
NextNumber_SkipsOne(segs) ==
  IF Len(segs) > 0 THEN segs[Len(segs)].Number + 2 ELSE 1

\* The number Write gives the next segment.
NextNumber(segs) ==
  IF Len(segs) > 0 THEN segs[Len(segs)].Number + 1 ELSE 1

\* plusWriter.Write as a function of the writer and the stores; ok says
\* whether the upload of the segment succeeds, nf whether it fails with a
\* 404, dbok whether the database takes the INSERT (a row with the same key
\* makes it fail in any case).  n and err are what the call returns.
WriteResult(w, objs, sg, buf, ok, nf, dbok) ==
  LET s == [Prefix |-> ObjectPrefix, Location |-> w.location,
            Number |-> NextNumber(w.segments),
            SizeBytes |-> Len(buf), Hash |-> HashOf(buf)]
      duplicate == HasSegment(sg, s.Location, s.Number)
      inserted == dbok /\ ~duplicate
  IN IF ~ok
     THEN [w |-> w, objects |-> objs, segments |-> sg, n |-> 0,
           err |-> setReportedPath(SwiftError(nf, SegObjectPath(s)),
                                   w.fullPath),
           inserted |-> FALSE]
     ELSE [w |-> [w EXCEPT !.segments = Append(@, s)],
           objects |-> swiftPut(objs, SegObjectPath(s), DataObject(buf)),
           segments |->
             IF ~inserted THEN sg
             ELSE sg \cup {[Location |-> s.Location, Number |-> s.Number,
                            SizeBytes |-> s.SizeBytes, Hash |-> s.Hash]},
           n |-> Len(buf),
           err |-> IF ~dbok THEN ErrDB
                   ELSE IF duplicate THEN ErrDuplicateKey
                   ELSE Nil,
           inserted |-> inserted]

\* plusWriter.Write
Write(i, buf, ok, nf, dbok) ==
  LET w == writers[i]
      r == WriteResult(w, objects, segments, buf, ok, nf, dbok)
      r0 == [NoRet EXCEPT !.op = "Write", !.wid = i, !.path = w.fullPath,
                          !.data = buf, !.term = w.hTerm, !.writes = 1]
  IN /\ i <= Len(writers)
     /\ Count(~ok \/ ~dbok)
     /\ nf => ~ok
     /\ ~dbok => ok
     /\ UNCHANGED <<files, nextLoc>>
     /\ objects' = r.objects
     /\ segments' = r.segments
     /\ writers' = [writers EXCEPT ![i] =
          [Called(r.w) EXCEPT
             !.hBufs = IF r.inserted THEN Append(@, buf) ELSE @]]
     /\ ret' = [r0 EXCEPT !.n = r.n, !.err = r.err]

\* plusWriter.Commit as a function of the writer and the stores: the error
\* it returns and what it leaves behind.  ok: WriteSLO succeeds; nf: it
\* fails with a 404; dbok: the database takes the upsert of writeFileInfo.
CommitResultOn(fs, objs, w, ok, nf, dbok) ==
  LET fi == [DirName |-> Dir(w.fullPath), BaseName |-> Base(w.fullPath),
             SizeBytes |-> Size(w), Contents |-> <<>>,
             Location |-> w.location]
      same == [err |-> Nil, w |-> w, files |-> fs, objects |-> objs]
  IN IF w.closed THEN [same EXCEPT !.err = errClosed]
     ELSE IF w.cancelled THEN [same EXCEPT !.err = errCancelled]
     ELSE IF w.committed THEN [same EXCEPT !.err = errCommitted]
     ELSE IF ~ok
     THEN [same EXCEPT !.err =
             SwiftError(nf, prependPrefix(ObjectPrefix, FiObjectPath(fi)))]
     ELSE IF ~dbok
     THEN [same EXCEPT
             !.err = ErrDB,
             !.objects = swiftPut(objs,
                           prependPrefix(ObjectPrefix, FiObjectPath(fi)),
                           ManifestObject(w.segments))]
     ELSE [err |-> Nil,
           w |-> [w EXCEPT !.committed = TRUE],
           files |-> writeFileInfo(fs, fi),
           objects |-> swiftPut(objs,
                         prependPrefix(ObjectPrefix, FiObjectPath(fi)),
                         ManifestObject(w.segments))]

\* A Commit that marks the writer committed once the manifest is written,
\* before the row is.
CommitResult_CommitsEarly(w, ok, nf, dbok) ==
  LET fi == [DirName |-> Dir(w.fullPath), BaseName |-> Base(w.fullPath),
             SizeBytes |-> Size(w), Contents |-> <<>>,
             Location |-> w.location]
      same == [err |-> Nil, w |-> w, files |-> files, objects |-> objects]
      slo == swiftPut(objects, prependPrefix(ObjectPrefix, FiObjectPath(fi)),
                      ManifestObject(w.segments))
  IN IF w.closed THEN [same EXCEPT !.err = errClosed]
     ELSE IF w.cancelled THEN [same EXCEPT !.err = errCancelled]
     ELSE IF w.committed THEN [same EXCEPT !.err = errCommitted]
     ELSE IF ~ok
     THEN [same EXCEPT !.err =
             SwiftError(nf, prependPrefix(ObjectPrefix, FiObjectPath(fi)))]
     ELSE [err |-> IF dbok THEN Nil ELSE ErrDB,
           w |-> [w EXCEPT !.committed = TRUE],
           files |-> IF dbok THEN writeFileInfo(files, fi) ELSE files,
           objects |-> slo]

\* plusWriter.Commit on the stores as they are.
CommitResult(w, ok, nf, dbok) ==
  CommitResultOn(files, objects, w, ok, nf, dbok)

\* Whether Commit gets as far as calling WriteSLO.
CommitReachesSwift(w) == ~w.closed /\ ~w.cancelled /\ ~w.committed

Commit(i, ok, nf, dbok) ==
  LET w == writers[i]
      c == CommitResult(w, ok, nf, dbok)
  IN /\ i <= Len(writers)
     /\ Count(~ok \/ ~dbok)
     /\ (~ok \/ ~dbok) => CommitReachesSwift(w)
     /\ nf => ~ok
     /\ ~dbok => ok
     /\ files' = c.files
     /\ objects' = c.objects
     /\ writers' = [writers EXCEPT ![i] =
          [Called(c.w) EXCEPT
             !.hFailed = IF ok /\ dbok THEN @ ELSE @ + 1,
             !.hTerm = IF @ = "" /\ c.w.committed THEN "committed" ELSE @]]
     /\ ret' = [NoRet EXCEPT !.op = "Commit", !.wid = i, !.path = w.fullPath,
                             !.err = c.err, !.term = w.hTerm]
     /\ UNCHANGED <<segments, nextLoc>>

Close(i, ok, nf, dbok) ==
  LET w == writers[i]
      same == [err |-> Nil, w |-> w, files |-> files, objects |-> objects]
      c == IF w.closed THEN [same EXCEPT !.err = errClosed]
           ELSE IF ~w.committed /\ ~w.cancelled
           THEN CommitResult(w, ok, nf, dbok)
           ELSE same
  IN /\ i <= Len(writers)
     /\ Count(~ok \/ ~dbok)
     /\ (~ok \/ ~dbok) => CommitReachesSwift(w)
     /\ nf => ~ok
     /\ ~dbok => ok
     /\ files' = c.files
     /\ objects' = c.objects
     /\ writers' = [writers EXCEPT ![i] =
          [Called(c.w) EXCEPT
             !.hTerm = IF @ = "" /\ c.err = Nil THEN "closed" ELSE @]]
     /\ ret' = [NoRet EXCEPT !.op = "Close", !.wid = i, !.path = w.fullPath,
                             !.err = c.err, !.term = w.hTerm]
     /\ UNCHANGED <<segments, nextLoc>>

\* A Cancel that also removes what the writer has uploaded under its
\* location.
Cancel_PurgesUploads(i, budget, nf) ==
  LET w == writers[i]
      st == DriverDelete(Stores(budget, nf), w.fullPath)
      r0 == [NoRet EXCEPT !.op = "Cancel", !.wid = i, !.path = w.fullPath,
                          !.term = w.hTerm]
  IN /\ i <= Len(writers)
     /\ Count(budget = 0)
     /\ budget = 0 => (~w.closed /\ st.err # Nil)
     /\ nf => budget = 0
     /\ UNCHANGED nextLoc
     /\ IF w.closed
        THEN /\ ret' = [r0 EXCEPT !.err = errClosed]
             /\ writers' = [writers EXCEPT ![i] = Called(w)]
             /\ UNCHANGED <<files, objects, segments>>
        ELSE /\ files' = st.files
             /\ segments' = st.segments
             /\ objects' = swiftDeleteAll(st.objects,
                              prependPrefix(ObjectPrefix, <<w.location>>))
             /\ writers' = [writers EXCEPT ![i] =
                  [Called(w) EXCEPT
                     !.cancelled = TRUE, !.segments = <<>>,
                     !.hTerm = IF @ = "" THEN "cancelled" ELSE @]]
             /\ ret' = [r0 EXCEPT !.err = st.err]

Cancel(i, budget, nf) ==
  LET w == writers[i]
      st == DriverDelete(Stores(budget, nf), w.fullPath)
      r0 == [NoRet EXCEPT !.op = "Cancel", !.wid = i, !.path = w.fullPath,
                          !.term = w.hTerm]
  IN /\ i <= Len(writers)
     /\ Count(budget = 0)
     /\ budget = 0 => (~w.closed /\ st.err # Nil)
     /\ nf => budget = 0
     /\ UNCHANGED nextLoc
     /\ IF w.closed
        THEN /\ ret' = [r0 EXCEPT !.err = errClosed]
             /\ writers' = [writers EXCEPT ![i] = Called(w)]
             /\ UNCHANGED <<files, objects, segments>>
        ELSE /\ files' = st.files
             /\ segments' = st.segments
             /\ objects' = st.objects
             /\ writers' = [writers EXCEPT ![i] =
                  [Called(w) EXCEPT
                     !.cancelled = TRUE, !.segments = <<>>,
                     !.hTerm = IF @ = "" THEN "cancelled" ELSE @]]
             /\ ret' = [r0 EXCEPT !.err = st.err]

---------------------------------------------------------------------------

Init ==
  /\ files = {}
  /\ segments = {}
  /\ objects = [k \in {} |-> 0]
  /\ writers = <<>>
  /\ nextLoc = 0
  /\ todo = MaxOps
  /\ faults = 0
  /\ ret = NoRet

\* The paths writers are opened on: one directly below the root, one with a
\* parent directory and room for a row below it.
WriterPaths == { <<"b">>, <<"a", "b">> }

\* From the empty stores: every driver call on every path, writers opened
\* on WriterPaths; a request to Swift may
\* fail (without a 404), the database serves every statement.  The 404s
\* and the failures of the database are taken from the second starting
\* point below.
Next ==
  \/ \E p \in Paths, c \in Contents, b \in DeleteBudgets,
        ok \in BOOLEAN, nf \in {FALSE} :
       PutContent(p, c, b, ok, nf)
  \/ \E p \in Paths, b \in DeleteBudgets, nf \in {FALSE} : Delete(p, b, nf)
  \/ \E m \in MovePairs, b \in DeleteBudgets, nf \in {FALSE} :
       Move(m[1], m[2], b, nf)
  \/ \E p \in WriterPaths, a \in BOOLEAN, b \in DeleteBudgets,
        nf \in {FALSE} :
       OpenWriter(p, a, b, nf)
  \/ \E i \in 1..MaxWriters, buf \in Bufs,
        ok \in BOOLEAN, nf \in {FALSE}, dbok \in {TRUE} :
       Write(i, buf, ok, nf, dbok)
  \/ \E i \in 1..MaxWriters, ok \in BOOLEAN, nf \in {FALSE},
        dbok \in {TRUE} :
       Commit(i, ok, nf, dbok)
  \/ \E i \in 1..MaxWriters, ok \in BOOLEAN, nf \in {FALSE},
        dbok \in {TRUE} :
       Close(i, ok, nf, dbok)
  \/ \E i \in 1..MaxWriters, b \in DeleteBudgets, nf \in {FALSE} :
       Cancel(i, b, nf)

Spec == Init /\ [][Next]_vars

---------------------------------------------------------------------------
(* A second starting point: the stores as a writer leaves them that was    *)
(* opened on /a/b, wrote <<1>> and <<2, 3>> and committed (that writer is  *)
(* not used again).  From here the calls are made on /a/b only, one more   *)
(* of them than from the empty stores, and a request may fail in every     *)
(* way: Swift with or without a 404, the database on an INSERT or upsert.  *)

SeedPath == <<"a", "b">>

SeedSegment(number, buf) ==
  [Prefix |-> ObjectPrefix, Location |-> LocNames[1], Number |-> number,
   SizeBytes |-> Len(buf), Hash |-> HashOf(buf)]

SeedSegments == << SeedSegment(1, <<1>>), SeedSegment(2, <<2, 3>>) >>

SeedFile ==
  [DirName |-> Dir(SeedPath), BaseName |-> Base(SeedPath),
   SizeBytes |-> SumSizes(SeedSegments), Contents |-> <<>>,
   Location |-> LocNames[1]]

InitAppend ==
  /\ files = writeFileInfo({}, SeedFile)
  /\ segments = {[Location |-> SeedSegments[i].Location,
                  Number |-> SeedSegments[i].Number,
                  SizeBytes |-> SeedSegments[i].SizeBytes,
                  Hash |-> SeedSegments[i].Hash] : i \in 1..Len(SeedSegments)}
  /\ objects = swiftPut(
                 swiftPut(
                   swiftPut([k \in {} |-> 0],
                            SegObjectPath(SeedSegments[1]), DataObject(<<1>>)),
                   SegObjectPath(SeedSegments[2]), DataObject(<<2, 3>>)),
                 prependPrefix(ObjectPrefix, FiObjectPath(SeedFile)),
                 ManifestObject(SeedSegments))
  /\ writers = <<>>
  /\ nextLoc = 1
  /\ todo = MaxOps + 1
  /\ faults = 0
  /\ ret = NoRet

NextAppend ==
  \/ \E c \in {Small, Large257}, b \in DeleteBudgets,
        ok \in BOOLEAN, nf \in BOOLEAN :
       PutContent(SeedPath, c, b, ok, nf)
  \/ \E b \in DeleteBudgets, nf \in BOOLEAN : Delete(SeedPath, b, nf)
  \/ \E b \in DeleteBudgets, nf \in BOOLEAN : Move(SeedPath, <<"b">>, b, nf)
  \/ \E a \in BOOLEAN, b \in DeleteBudgets, nf \in BOOLEAN :
       OpenWriter(SeedPath, a, b, nf)
  \/ \E i \in 1..MaxWriters, buf \in Bufs,
        ok \in BOOLEAN, nf \in BOOLEAN, dbok \in BOOLEAN :
       Write(i, buf, ok, nf, dbok)
  \/ \E i \in 1..MaxWriters, ok \in BOOLEAN, nf \in BOOLEAN,
        dbok \in BOOLEAN :
       Commit(i, ok, nf, dbok)
  \/ \E i \in 1..MaxWriters, ok \in BOOLEAN, nf \in BOOLEAN,
        dbok \in BOOLEAN :
       Close(i, ok, nf, dbok)
  \/ \E i \in 1..MaxWriters, b \in DeleteBudgets, nf \in BOOLEAN :
       Cancel(i, b, nf)

SpecAppend == InitAppend /\ [][NextAppend]_vars

---------------------------------------------------------------------------
(* Claims *)

IsFileTier(t) == t \in {"empty", "inline", "external"}

\* The proper ancestors of a path, the root left out.
Ancestors(p) == {SubSeq(p, 1, n) : n \in 1..(Len(p) - 1)}

\* The error that names a writer's terminal state.
TermError(t) ==
  IF t = "committed" THEN errCommitted
  ELSE IF t = "cancelled" THEN errCancelled
  ELSE errClosed

\* C1: once a writer has reached a terminal state (committed, cancelled,
\* closed), every further Write, Commit, Cancel or Close on it fails with the
\* error that names the terminal state reached first (stated for the
\* behaviours in which no Swift request has failed).
C1_TerminalWriterRejectsCalls ==
  (faults = 0 /\ ret.op \in {"Write", "Commit", "Cancel", "Close"}
     /\ ret.term # "")
    => ret.err = TermError(ret.term)

\* C2: every row of `files` whose directory is not the root has a row at
\* its parent directory path (and so, row by row, up to the root), after
\* any sequence of calls that all returned without a failure of Swift.
C2_EveryRecordHasParent ==
  faults = 0 =>
    \A r \in files : r.DirName # Root => HasRow(files, r.DirName)

C4_PutExternalRoundTrip ==
  (ret.op = "PutContent" /\ ret.err = Nil
     /\ Len(ret.data) > maxInlineSizeBytes)
    => /\ GetContent(ret.path).err = Nil
       /\ GetContent(ret.path).data = ret.data
       /\ ret.writes >= 1
       /\ Stat(ret.path).err = Nil
       /\ Stat(ret.path).size = Len(ret.data)

\* A PutContent of 257 bytes has just replaced an inline file.
C4_Witness ==
  /\ ret.op = "PutContent" /\ ret.err = Nil
  /\ ret.data = Large257
  /\ ret.prev = "inline"

\* Writer i was opened with append on an external file made of segments 1
\* and 2, has since taken two Writes that succeeded and then a Commit that
\* succeeded, and no other call was made in between.
AppendedTwiceAndCommitted(i) ==
  LET w == writers[i]
  IN /\ ret.op = "Commit" /\ ret.wid = i /\ ret.err = Nil
     /\ w.hAppend /\ w.hPrev = "external"
     /\ Len(w.hOldSegs) = 2
     /\ w.hOldSegs[1].Number = 1 /\ w.hOldSegs[2].Number = 2
     /\ w.hOldObject.kind = "slo"
     /\ [k \in 1..Len(w.hOldObject.segs) |-> w.hOldObject.segs[k].Number]
          = <<1, 2>>
     /\ w.hBase.err = Nil
     /\ Len(w.hBufs) = 2
     /\ w.hCalls = 3
     /\ w.hOpenedAt - todo = w.hCalls

\* C5: appending to an external file made of segments 1 and 2 reuses the
\* file's location; two successful Writes add the segment rows 3 and 4 of
\* that location; after Commit, GetContent returns the old bytes followed by
\* the two buffers in order, and Stat reports the sum of the four sizes.
C5_AppendContinuesSegments ==
  \A i \in 1..Len(writers) :
    AppendedTwiceAndCommitted(i) =>
      LET w == writers[i]
          rows == readSegmentInfo(segments, w.hOldLoc)
      IN /\ w.location = w.hOldLoc
         /\ [k \in 1..Len(rows) |-> rows[k].Number] = <<1, 2, 3, 4>>
         /\ rows[3].SizeBytes = Len(w.hBufs[1])
         /\ rows[4].SizeBytes = Len(w.hBufs[2])
         /\ GetContent(w.fullPath).err = Nil
         /\ GetContent(w.fullPath).data
              = w.hBase.data \o w.hBufs[1] \o w.hBufs[2]
         /\ Stat(w.fullPath).size
              = rows[1].SizeBytes + rows[2].SizeBytes
                  + rows[3].SizeBytes + rows[4].SizeBytes

\* The two buffers appended differ, so that their order shows.
C5_Witness ==
  \E i \in 1..Len(writers) :
    /\ AppendedTwiceAndCommitted(i)
    /\ writers[i].hBufs = << <<2, 3>>, <<1>> >>

\* The objects stored under a location.
ObjectsUnder(objs, loc) ==
  {n \in DOMAIN objs : Below(prependPrefix(ObjectPrefix, <<loc>>), n)}

\* This step is a call of the named kind that returned no error, in a
\* behaviour in which no Swift request has failed.
Succeeded(op) ==
  faults' = 0 /\ todo' = todo - 1 /\ ret'.op = op /\ ret'.err = Nil

\* C6: after Delete has succeeded on a directory, no row is left at its
\* path or below it, and no object is left under the location of a file
\* that was in that subtree; Delete of a path without a row succeeds and
\* changes neither `files` nor the container.
C6_DeleteRemovesSubtree ==
  [][Succeeded("Delete") =>
       /\ ret'.prev = "dir" =>
            /\ \A r \in files' : ~IsPrefix(ret'.path, FiPath(r))
            /\ \A r \in files :
                 (IsPrefix(ret'.path, FiPath(r)) /\ r.Location # "")
                   => ObjectsUnder(objects', r.Location) = {}
       /\ ret'.prev = "none" => (files' = files /\ objects' = objects)]_vars

\* C7: after a directory has been deleted, Stat, List and GetContent
\* return PathNotFound for its path and for every path below it.
C7_DeletedPathsNotFound ==
  (faults = 0 /\ ret.op = "Delete" /\ ret.err = Nil /\ ret.prev = "dir")
    => \A q \in Paths :
         IsPrefix(ret.path, q) =>
           /\ Stat(q).err = PathNotFoundError(q)
           /\ List(q).err = PathNotFoundError(q)
           /\ GetContent(q).err = PathNotFoundError(q)

\* C8: after Cancel has returned without error, GetContent of the
\* writer's path returns PathNotFound, whatever the writer was opened on.
C8_CancelLeavesNoFile ==
  (ret.op = "Cancel" /\ ret.err = Nil)
    => GetContent(ret.path).err = PathNotFoundError(ret.path)

\* A writer opened where no row was, written to once, then cancelled.
C8_Witness ==
  /\ ret.op = "Cancel" /\ ret.err = Nil
  /\ ret.wid \in 1..Len(writers)
  /\ writers[ret.wid].hPrev = "none"
  /\ Len(writers[ret.wid].hBufs) = 1
  /\ writers[ret.wid].hCalls = 2

\* C9: when Move has succeeded on a source that held a readable file and a
\* destination whose parent directory had no row, Stat succeeds on every
\* ancestor of the destination, GetContent of the destination returns what
\* the source held, and GetContent of the source returns PathNotFound.
C9_MoveIntoMissingDirectory ==
  [][\A s \in Paths, d \in Paths :
       (/\ Succeeded("Move") /\ ret'.path = s /\ ret'.dst = d
        /\ IsFileTier(ret'.prev)
        /\ GetContent(s).err = Nil
        /\ Dir(d) # Root
        /\ ~HasRow(files, Dir(d)))
         => /\ \A q \in Ancestors(d) : Stat(q)'.err = Nil
            /\ GetContent(d)'.err = Nil
            /\ GetContent(d)'.data = GetContent(s).data
            /\ GetContent(s)'.err = PathNotFoundError(s)]_vars

\* C10: Reader with an offset greater than the size of an existing file
\* returns an empty stream and no error without a read request to Swift,
\* for an inline file and an external file alike.
C10_ReaderPastEndIsEmpty ==
  \A p \in Paths :
    LET fi == readFileInfo(files, p)
    IN IsFileTier(Tier(fi)) =>
         \A offset \in {fi.SizeBytes + 1, fi.SizeBytes + 2} :
           Reader(p, offset) = [err |-> Nil, data |-> <<>>, reads |-> 0]

\* An inline file and an external file whose blob is stored both exist.
C10_Witness ==
  /\ \E p \in Paths : Tier(readFileInfo(files, p)) = "inline"
  /\ \E p \in Paths :
       /\ Tier(readFileInfo(files, p)) = "external"
       /\ Reader(p, 0).err = Nil

\* C11 as stated: URLFor returns a URL only for an external record, and
\* fails with ErrUnsupportedMethod both for an inline record and for a path
\* without a record.
C11_URLForUnsupportedWhenMissing ==
  \A p \in Paths :
    LET t == Tier(readFileInfo(files, p))
    IN /\ \A ok \in BOOLEAN, nf \in BOOLEAN :
            URLFor(p, ok, nf).err = Nil => t = "external"
       /\ t \in {"inline", "none"}
            => URLFor(p, TRUE, FALSE).err = ErrUnsupportedMethod

\* C11 amended: URLFor returns a URL only for an external record; for an
\* inline record it fails with ErrUnsupportedMethod, and for a path without
\* a record it fails with PathNotFound carrying that path.
C11_URLForByTier ==
  \A p \in Paths :
    LET t == Tier(readFileInfo(files, p))
    IN /\ \A ok \in BOOLEAN, nf \in BOOLEAN :
            URLFor(p, ok, nf).err = Nil => t = "external"
       /\ t = "inline" => URLFor(p, TRUE, FALSE).err = ErrUnsupportedMethod
       /\ t = "none" => URLFor(p, TRUE, FALSE).err = PathNotFoundError(p)

\* An inline record, an external record that gets its URL, and a path
\* without a record are there together.
C11_Witness ==
  /\ \E p \in Paths : Tier(readFileInfo(files, p)) = "inline"
  /\ \E p \in Paths :
       /\ Tier(readFileInfo(files, p)) = "external"
       /\ URLFor(p, TRUE, FALSE).err = Nil
       /\ URLFor(p, TRUE, FALSE).url # <<>>
  /\ \E p \in Paths : URLFor(p, TRUE, FALSE).err = PathNotFoundError(p)

\* How many of the three ways of holding bytes a row shows.
WaysMaterialized(r) ==
  (IF r.SizeBytes = 0 THEN 1 ELSE 0)
    + (IF Len(r.Contents) > 0 THEN 1 ELSE 0)
    + (IF r.Location # "" THEN 1 ELSE 0)

\* C12: every row that is not a directory shows exactly one of: size 0,
\* inline content, a location; in particular never both a location and
\* inline content (stated for the behaviours without a failed request).
C12_ExactlyOneTier ==
  faults = 0 =>
    \A r \in files :
      ~IsDir(r) =>
        /\ WaysMaterialized(r) = 1
        /\ ~(r.Location # "" /\ Len(r.Contents) > 0)

\* C13: in every reachable state, also after Writes whose upload or INSERT
\* failed and with writers interleaving on one path, the numbers of the
\* rows of `segments` that share a location are 1..n without a gap (the
\* primary key rules out a number twice).
C13_SegmentNumbersContiguous ==
  \A r \in segments :
    \A k \in 1..r.Number : HasSegment(segments, r.Location, k)

\* The error is not a PathNotFound, or it carries one of the given paths.
CarriesOnly(err, paths) == err.kind = "PathNotFound" => err.path \in paths

\* C14: when Swift answers a request with a 404 that names an object, the
\* call that surfaces it (GetContent, PutContent, Reader, URLFor, Delete,
\* Move, Write, Commit, Cancel) returns PathNotFound carrying the path its
\* caller gave; no error returned carries a location or an object name.
\* (The read-only calls are looked at where no request has failed before.)
C14_ErrorsCarryLogicalPath ==
  /\ CarriesOnly(ret.err, {ret.path, ret.dst} \ {Root})
  /\ faults = 0 =>
       \A p \in Paths :
         /\ CarriesOnly(GetContent(p).err, {p})
         /\ CarriesOnly(Reader(p, 0).err, {p})
         /\ CarriesOnly(URLFor(p, FALSE, TRUE).err, {p})

\* C15: for every source that has a row and every destination (the source
\* itself, an ancestor and a descendant of it included), after Move has
\* succeeded the destination has a row with the size, inline content and
\* location the source row had, and the rows that were at the destination
\* or below it are gone, and so are their blobs.
C15_MoveReplacesDestination ==
  [][\A s \in Paths, d \in Paths :
       (Succeeded("Move") /\ ret'.path = s /\ ret'.dst = d
          /\ HasRow(files, s))
         => LET old == readFileInfo(files, s)
                new == readFileInfo(files', d)
            IN /\ new # NoRows
               /\ new.SizeBytes = old.SizeBytes
               /\ new.Contents = old.Contents
               /\ new.Location = old.Location
               /\ \A r \in files :
                    (IsPrefix(d, FiPath(r)) /\ r # old)
                      => /\ r \notin files'
                         /\ r.Location # ""
                              => ObjectsUnder(objects', r.Location) = {}]_vars

\* The writer is open: neither committed nor cancelled nor closed.
IsOpen(w) == ~w.committed /\ ~w.cancelled /\ ~w.closed

C17_WriteAppendsOneSegment ==
  [][\A i \in 1..MaxWriters :
       (todo' = todo - 1 /\ ret'.op = "Write" /\ ret'.wid = i
          /\ ret'.err = Nil)
         => LET w == writers[i]
                w2 == writers'[i]
                buf == ret'.data
                n == Len(w.segments)
                num == IF n = 0 THEN 1 ELSE w.segments[n].Number + 1
                row == [Location |-> w.location, Number |-> num,
                        SizeBytes |-> Len(buf), Hash |-> HashOf(buf)]
                name == <<ObjectPrefix, w.location, ToString(num)>>
            IN /\ ret'.n = Len(buf)
               /\ row \notin segments
               /\ segments' = segments \cup {row}
               /\ Len(w2.segments) = n + 1
               /\ SubSeq(w2.segments, 1, n) = w.segments
               /\ w2.segments[n + 1].Location = w.location
               /\ w2.segments[n + 1].Number = num
               /\ w2.segments[n + 1].SizeBytes = Len(buf)
               /\ w2.segments[n + 1].Hash = HashOf(buf)
               /\ DOMAIN objects' = DOMAIN objects \cup {name}
               /\ objects'[name] = DataObject(buf)
               /\ \A k \in DOMAIN objects \ {name} : objects'[k] = objects[k]
               /\ Size(w2) = Size(w) + Len(buf)
               /\ Size(w2) = SumSizes(w2.segments)]_vars

\* A writer that appends to the file of segments 1 and 2 has written two
\* different buffers; the second Write has just returned.
C17_Witness ==
  /\ ret.op = "Write" /\ ret.err = Nil
  /\ ret.wid \in 1..Len(writers)
  /\ LET w == writers[ret.wid]
     IN /\ w.hAppend
        /\ Len(w.hOldSegs) = 2
        /\ Len(w.segments) = 4
        /\ w.segments[4].Number = 4
        /\ w.hBufs = << <<1>>, <<2, 3>> >>

\* C18: opening a writer without append on a path that has a row deletes,
\* at open time, that row and every row below it together with their
\* blobs, and gives the writer a location that differs from the old one;
\* GetContent of the path then returns PathNotFound.
C18_OpenWithoutAppendDeletesSubtree ==
  [][\A p \in Paths :
       (Succeeded("Writer") /\ ret'.path = p /\ HasRow(files, p)
          /\ ~writers'[ret'.wid].hAppend)
         => /\ \A r \in files' : ~IsPrefix(p, FiPath(r))
            /\ \A r \in files :
                 (IsPrefix(p, FiPath(r)) /\ r.Location # "")
                   => ObjectsUnder(objects', r.Location) = {}
            /\ writers'[ret'.wid].location # readFileInfo(files, p).Location
            /\ \A r \in files : writers'[ret'.wid].location # r.Location
            /\ GetContent(p)'.err = PathNotFoundError(p)]_vars

\* C19 as stated: when Move has succeeded on a directory that has rows
\* below it, each of those rows is still there with its key under the old
\* source path, and List of the destination returns none of them.
C19_MoveKeepsDescendants ==
  [][\A s \in Paths, d \in Paths :
       (Succeeded("Move") /\ ret'.path = s /\ ret'.dst = d
          /\ HasRow(files, s) /\ IsDir(readFileInfo(files, s)))
         => \A r \in files :
              Below(s, FiPath(r))
                => /\ r \in files'
                   /\ FiPath(r) \notin List(d)'.names]_vars

\* C19 amended: the same for the rows below the source that do not lie at
\* or below the destination (those are subject to the overwrite of the
\* destination).
C19_MoveKeepsDescendantsApartFromDest ==
  [][\A s \in Paths, d \in Paths :
       (Succeeded("Move") /\ ret'.path = s /\ ret'.dst = d
          /\ HasRow(files, s) /\ IsDir(readFileInfo(files, s)))
         => \A r \in files :
              (Below(s, FiPath(r)) /\ ~IsPrefix(d, FiPath(r)))
                => /\ r \in files'
                   /\ FiPath(r) \notin List(d)'.names]_vars

\* The directory /a has just been moved to /b: its row has the new key,
\* the row /a/b below it is where it was, and List(/b) is empty.
C19_Witness ==
  /\ ret.op = "Move" /\ ret.err = Nil
  /\ ret.path = <<"a">> /\ ret.dst = <<"b">> /\ ret.prev = "dir"
  /\ HasRow(files, <<"a", "b">>)
  /\ ~HasRow(files, <<"a">>)
  /\ IsDir(readFileInfo(files, <<"b">>))
  /\ List(<<"b">>).names = {}

\* C20: a PutContent that succeeds on a path whose row is a directory
\* leaves a file row at that path, leaves every other row as it was, the
\* rows below the path among them, and removes no object from the
\* container (a directory row has no blob of its own).
C20_PutOverDirectoryKeepsChildren ==
  [][\A p \in Paths :
       (Succeeded("PutContent") /\ ret'.path = p /\ ret'.prev = "dir")
         => LET old == readFileInfo(files, p)
            IN /\ HasRow(files', p)
               /\ ~IsDir(readFileInfo(files', p))
               /\ \A r \in files : r # old => r \in files'
               /\ \A n \in DOMAIN objects :
                    n \in DOMAIN objects' /\ objects'[n] = objects[n]]_vars

\* The directory /a/b has just been replaced by a file; the external file
\* /a/b/c below it is still there and still readable.
C20_Witness ==
  /\ ret.op = "PutContent" /\ ret.err = Nil /\ ret.prev = "dir"
  /\ ret.path = <<"a", "b">>
  /\ Tier(readFileInfo(files, <<"a", "b", "c">>)) = "external"
  /\ GetContent(<<"a", "b", "c">>).err = Nil
  /\ IsFileTier(Tier(readFileInfo(files, <<"a", "b">>)))

---------------------------------------------------------------------------

\* C21: no call removes a row of `segments`: every step leaves every row
\* there was; PutContent, Delete, Move, Writer and Cancel leave the table as
\* it was; and when Delete has succeeded on a file stored in Swift, the row
\* of the file is gone while the segment rows of its location are all still
\* there.
C21_SegmentRecordsNeverRemoved ==
  [][/\ segments \subseteq segments'
     /\ (todo' = todo - 1
           /\ ret'.op \in {"PutContent", "Delete", "Move", "Writer", "Cancel"})
          => segments' = segments
     /\ \A p \in Paths :
          (/\ todo' = todo - 1
           /\ ret'.op = "Delete" /\ ret'.err = Nil /\ ret'.path = p
           /\ Tier(readFileInfo(files, p)) = "external")
          => /\ ~HasRow(files', p)
             /\ readSegmentInfo(segments', readFileInfo(files, p).Location)
                  = readSegmentInfo(segments, readFileInfo(files, p).Location)
    ]_vars

\* The file a writer wrote in two segments has been deleted: its row and
\* its objects are gone, its two segment rows are not.
C21_Witness ==
  /\ ret.op = "Delete" /\ ret.err = Nil /\ ret.prev = "external"
  /\ ret.path = SeedPath
  /\ ~HasRow(files, SeedPath)
  /\ ObjectsUnder(objects, LocNames[1]) = {}
  /\ Len(readSegmentInfo(segments, LocNames[1])) = 2

\* C22: a writer was opened on a path without a row, every call on it
\* since was a Write that succeeded (at least one), no other call was made
\* in between, and now Cancel returns without error.  Then this Cancel
\* changes none of `files`, the container and `segments`: every segment the
\* writer uploaded is still an object under its location, its row is still
\* in `segments`, and no row of `files` has that location.
C22_CancelWithoutRecordDeletesNothing ==
  [][\A i \in 1..MaxWriters :
       (/\ i <= Len(writers)
        /\ todo' = todo - 1
        /\ ret'.op = "Cancel" /\ ret'.wid = i /\ ret'.err = Nil
        /\ IsOpen(writers[i])
        /\ writers[i].hPrev = "none"
        /\ Len(writers[i].hBufs) >= 1
        /\ writers[i].hCalls = Len(writers[i].hBufs)
        /\ writers[i].hOpenedAt - todo = writers[i].hCalls)
         => /\ files' = files /\ objects' = objects /\ segments' = segments
            /\ \A k \in 1..Len(writers[i].hBufs) :
                 LET name == prependPrefix(ObjectPrefix,
                               <<writers[i].location, ToString(k)>>)
                 IN /\ name \in DOMAIN objects'
                    /\ objects'[name] = DataObject(writers[i].hBufs[k])
                    /\ HasSegment(segments', writers[i].location, k)
            /\ \A r \in files' : r.Location # writers[i].location
    ]_vars

\* Writer on /b where nothing was, one Write, Cancel: the segment object
\* and its row are there and `files` is empty.
C22_Witness ==
  /\ ret.op = "Cancel" /\ ret.err = Nil /\ ret.wid = 1
  /\ Len(writers) = 1
  /\ writers[1].hPrev = "none" /\ writers[1].cancelled
  /\ Len(writers[1].hBufs) = 1 /\ writers[1].hCalls = 2
  /\ writers[1].hOpenedAt - todo = 2
  /\ prependPrefix(ObjectPrefix, <<writers[1].location, "1">>)
       \in DOMAIN objects
  /\ HasSegment(segments, writers[1].location, 1)
  /\ \A r \in files : r.Location # writers[1].location

\* C23: PutContent of more than 256 bytes removes the old blob, then
\* writes the row, then uploads.  When it returns an error without having
\* tried the upload (removing the old blob failed), `files` and the
\* container are as before.  When the upload failed, the error is returned,
\* the old blob is gone, and the path has a row with the new size and a new
\* location not used by any row before, under which there is no object:
\* the container holds what it held less the old blob, and GetContent of
\* the path fails.  When it succeeds, the content object is under the
\* location of the row.
C23_PutPersistsRowBeforeUpload ==
  [][\A p \in Paths :
       (/\ todo' = todo - 1
        /\ ret'.op = "PutContent" /\ ret'.path = p
        /\ Len(ret'.data) > maxInlineSizeBytes)
         => LET old == readFileInfo(files, p)
                new == readFileInfo(files', p)
                name == prependPrefix(ObjectPrefix, FiObjectPath(new))
                cleared == IF old = NoRows \/ old.Location = "" THEN objects
                           ELSE swiftDeleteAll(objects,
                                  prependPrefix(ObjectPrefix,
                                                <<old.Location>>))
                persisted ==
                  /\ new # NoRows
                  /\ new.SizeBytes = Len(ret'.data)
                  /\ new.Contents = <<>>
                  /\ new.Location # ""
                  /\ \A r \in files : r.Location # new.Location
            IN IF ret'.err # Nil /\ ret'.writes = 0
               THEN files' = files /\ objects' = objects
               ELSE IF ret'.err # Nil
               THEN /\ persisted
                    /\ objects' = cleared
                    /\ ObjectsUnder(objects', new.Location) = {}
                    /\ GetContent(p)'.err # Nil
               ELSE /\ persisted
                    /\ objects' = swiftPut(cleared, name,
                                           DataObject(ret'.data))
    ]_vars

\* A file stored in Swift was overwritten by a PutContent whose upload
\* failed: the path has a row with a location that holds no object.
C23_Witness ==
  /\ ret.op = "PutContent" /\ ret.err # Nil /\ ret.writes = 1
  /\ ret.prev = "external"
  /\ Tier(readFileInfo(files, ret.path)) = "external"
  /\ readFileInfo(files, ret.path).SizeBytes = Len(ret.data)
  /\ ObjectsUnder(objects, readFileInfo(files, ret.path).Location) = {}

---------------------------------------------------------------------------
(* A third starting point: two writers opened one after the other on /b,   *)
(* where no row was, each with its own new location.  From here the calls  *)
(* are those on the two writers, in every interleaving, and a request may  *)
(* fail in every way.                                                      *)

PairPath == <<"b">>

InitPair ==
  /\ files = {}
  /\ segments = {}
  /\ objects = [k \in {} |-> 0]
  /\ nextLoc = 2
  /\ todo = MaxOps + 1
  /\ faults = 0
  /\ ret = NoRet
  /\ writers =
       << [NewWriter(PairPath, LocNames[1], <<>>, FALSE, NoRows)
             EXCEPT !.hOpenedAt = todo + 1],
          [NewWriter(PairPath, LocNames[2], <<>>, FALSE, NoRows)
             EXCEPT !.hOpenedAt = todo] >>

NextPair ==
  \/ \E i \in 1..MaxWriters, buf \in Bufs,
        ok \in BOOLEAN, nf \in BOOLEAN, dbok \in BOOLEAN :
       Write(i, buf, ok, nf, dbok)
  \/ \E i \in 1..MaxWriters, ok \in BOOLEAN, nf \in BOOLEAN,
        dbok \in BOOLEAN :
       Commit(i, ok, nf, dbok)
  \/ \E i \in 1..MaxWriters, ok \in BOOLEAN, nf \in BOOLEAN,
        dbok \in BOOLEAN :
       Close(i, ok, nf, dbok)
  \/ \E i \in 1..MaxWriters, b \in DeleteBudgets, nf \in BOOLEAN :
       Cancel(i, b, nf)

SpecPair == InitPair /\ [][NextPair]_vars

\* Since the writer was opened, the calls on it were Writes that succeeded,
\* at least one, and then one Commit that succeeded.
WroteAndCommitted(w) ==
  /\ w.committed /\ ~w.cancelled /\ w.hTerm = "committed"
  /\ Len(w.hBufs) >= 1
  /\ w.hCalls = Len(w.hBufs) + 1

\* C24: two writers are open on the same path, each with its own location.
\* A Commit on a writer that is open returns no error when no request
\* fails, whatever the other writer has done.  When each of the two has
\* only written and committed, and the Commit of the second of them has
\* just returned, the row of the path has the location and the size of
\* that writer, while every segment of the other writer is still an object
\* under its location with its row in `segments`, and no row of `files`
\* has that location.
C24_LastCommitWins ==
  /\ (ret.op = "Commit" /\ ret.term = "" /\ faults = 0) => ret.err = Nil
  /\ \A i \in 1..MaxWriters, j \in 1..MaxWriters :
       (/\ i <= Len(writers) /\ j <= Len(writers) /\ i # j
        /\ writers[i].fullPath = writers[j].fullPath
        /\ writers[i].location # writers[j].location
        /\ ret.op = "Commit" /\ ret.wid = j /\ ret.err = Nil
        /\ WroteAndCommitted(writers[i])
        /\ WroteAndCommitted(writers[j]))
         => LET fi == readFileInfo(files, writers[j].fullPath)
            IN /\ fi # NoRows
               /\ fi.Location = writers[j].location
               /\ fi.SizeBytes = Size(writers[j])
               /\ \A k \in 1..Len(writers[i].hBufs) :
                    LET name == prependPrefix(ObjectPrefix,
                                  <<writers[i].location, ToString(k)>>)
                    IN /\ name \in DOMAIN objects
                       /\ objects[name] = DataObject(writers[i].hBufs[k])
                       /\ HasSegment(segments, writers[i].location, k)
               /\ \A r \in files : r.Location # writers[i].location

\* The first writer opened committed last, after the second one: the row
\* has the first writer's location, and the second writer's segment is
\* stored.
C24_Witness ==
  /\ Len(writers) = 2
  /\ ret.op = "Commit" /\ ret.wid = 1 /\ ret.err = Nil
  /\ WroteAndCommitted(writers[1]) /\ WroteAndCommitted(writers[2])
  /\ writers[1].hBufs = << <<1>> >> /\ writers[2].hBufs = << <<2, 3>> >>
  /\ readFileInfo(files, PairPath).Location = writers[1].location
  /\ readFileInfo(files, PairPath).SizeBytes = 1
  /\ ObjectsUnder(objects, writers[2].location) # {}

---------------------------------------------------------------------------
(* bufferedWriter: the FileWriter that Driver.Writer hands out, a          *)
(* bufio.Writer of ChunkSize bytes in front of the plusWriter.             *)

\* p.swift.ChunkSize, the size of the bufio.Writer's buffer.
ChunkSize == 2

\* What the caller passes to one Write: less than a chunk, a chunk, more.
BufData == {<<1>>, <<2, 3>>, <<4, 5, 6>>}

\* How the next call of plusWriter.Write made by the bufio.Writer fails: not
\* at all, in the upload (0 bytes and the error), in the INSERT (all bytes
\* and the error).
RawFaults == {"none", "swift", "db"}

\* The one element of a set of one: {F(y) : y \in {e}} computes e once,
\* however often F uses it.
The(S) == CHOOSE z \in S : TRUE

\* The bufio.Writer calls fw.Write(buf).  x holds the writer, the stores the
\* write works on, the fault x.f waiting for the next raw write, and what
\* the last call returned (x.n, x.err); x.nn counts the bytes Write took.
rawWriteBy(x, buf, during) ==
  The({[x EXCEPT
          !.w = [Called(r.w) EXCEPT
                   !.hBufs = IF r.inserted THEN Append(@, buf) ELSE @,
                   !.hRaw = Append(@, [call |-> "Write", bytes |-> buf,
                                       during |-> during, err |-> r.err])],
          !.objects = r.objects,
          !.segments = r.segments,
          !.f = "none",
          !.n = r.n,
          !.err = r.err] :
       r \in {WriteResult(x.w, x.objects, x.segments, buf,
                          x.f # "swift", FALSE, x.f # "db")}})

\* A Flush that empties the buffer without writing it.
bufioFlush_DropsBuffer(x, during) ==
  IF x.w.bwErr # Nil THEN [x EXCEPT !.err = x.w.bwErr]
  ELSE [x EXCEPT !.w.bw = <<>>, !.err = Nil]

\* bufio.Writer.Flush: the error kept from an earlier write, else nothing
\* when the buffer is empty, else one write of all the buffered bytes; on an
\* error the bytes the write did not take stay buffered and the error is
\* kept.
bufioFlush(x, during) ==
  IF x.w.bwErr # Nil THEN [x EXCEPT !.err = x.w.bwErr]
  ELSE IF x.w.bw = <<>> THEN [x EXCEPT !.err = Nil]
  ELSE The({IF y.err # Nil
            THEN [y EXCEPT !.w.bw = SubSeq(x.w.bw, y.n + 1, Len(x.w.bw)),
                           !.w.bwErr = y.err]
            ELSE [y EXCEPT !.w.bw = <<>>] :
            y \in {rawWriteBy(x, x.w.bw, during)}})

\* bufio.Writer.Write(p) runs a loop while p is longer than the room left
\* and no error is kept: with bytes buffered it fills the buffer up from p
\* and flushes it, with nothing buffered it writes p to fw directly.  The
\* loop runs twice at most: a flush that succeeds leaves nothing buffered,
\* and the direct write takes all of p or leaves an error.  x.p is what is
\* left of p.

\* The turn of the loop taken with bytes buffered.
bufioFill(x) ==
  LET avail == ChunkSize - Len(x.w.bw)
  IN IF Len(x.p) > avail /\ x.w.bwErr = Nil /\ x.w.bw # <<>>
     THEN bufioFlush([x EXCEPT !.w.bw = @ \o SubSeq(x.p, 1, avail),
                              !.nn = @ + avail,
                              !.p = SubSeq(x.p, avail + 1, Len(x.p))],
                     "Write")
     ELSE x

\* The turn of the loop taken with nothing buffered.
bufioDirect(x) ==
  IF Len(x.p) > ChunkSize - Len(x.w.bw) /\ x.w.bwErr = Nil /\ x.w.bw = <<>>
  THEN The({[y EXCEPT !.w.bwErr = y.err, !.nn = @ + y.n,
                         !.p = SubSeq(x.p, y.n + 1, Len(x.p))] :
            y \in {rawWriteBy(x, x.p, "Write")}})
  ELSE x

\* After the loop: the error kept, or what is left of p goes to the buffer.
bufioCopy(x) ==
  IF x.w.bwErr # Nil THEN [x EXCEPT !.err = x.w.bwErr]
  ELSE [x EXCEPT !.w.bw = @ \o x.p, !.nn = @ + Len(x.p), !.p = <<>>,
                 !.err = Nil]

bufioWrite(x, p) ==
  The({bufioCopy(c) :
       c \in {bufioDirect(b) :
              b \in {bufioFill(a) : a \in {[x EXCEPT !.p = p]}}}})

\* The writer and the stores at the start of a call on the bufferedWriter.
Buffered(w, f) ==
  [w |-> w, objects |-> objects, segments |-> segments,
   f |-> f, n |-> 0, nn |-> 0, p |-> <<>>, err |-> Nil]

\* A call on the plusWriter made by the bufferedWriter, put in the log.
Delegated(w, call, err) ==
  [Called(w) EXCEPT
     !.hRaw = Append(@, [call |-> call, bytes |-> <<>>, during |-> call,
                         err |-> err])]

\* bufferedWriter.Write
BufferedWrite(i, data, f) ==
  /\ i <= Len(writers)
  /\ \E w \in {writers[i]} :
     \E x \in {bufioWrite(Buffered([w EXCEPT !.hSupplied = @ \o data], f),
                          data)} :
     /\ Count(f # "none")
     /\ f # "none" => (Len(data) > ChunkSize - Len(w.bw) /\ w.bwErr = Nil)
     /\ writers' = [writers EXCEPT ![i] = x.w]
     /\ objects' = x.objects
     /\ segments' = x.segments
     /\ ret' = [NoRet EXCEPT !.op = "BufferedWrite", !.wid = i,
                             !.path = w.fullPath, !.data = data,
                             !.n = x.nn, !.err = x.err, !.term = w.hTerm,
                             !.writes = Len(x.w.hRaw) - Len(w.hRaw)]
     /\ UNCHANGED <<files, nextLoc>>

\* bufferedWriter.Commit: Flush, and fw.Commit if that returned no error.
BufferedCommit(i, f, ok, dbok) ==
  /\ i <= Len(writers)
  /\ \E w \in {writers[i]} :
     \E x \in {bufioFlush(Buffered(w, f), "Commit")} :
       LET c == CommitResultOn(files, x.objects, x.w, ok, FALSE, dbok)
           r0 == [NoRet EXCEPT !.op = "BufferedCommit", !.wid = i,
                               !.path = w.fullPath, !.term = w.hTerm,
                               !.writes = Len(x.w.hRaw) - Len(w.hRaw)]
       IN /\ Count(f # "none" \/ ~ok \/ ~dbok)
          /\ f # "none" => (w.bw # <<>> /\ w.bwErr = Nil /\ ok /\ dbok)
          /\ (~ok \/ ~dbok) => (x.err = Nil /\ CommitReachesSwift(w))
          /\ ~dbok => ok
          /\ segments' = x.segments
          /\ UNCHANGED nextLoc
          /\ IF x.err # Nil
             THEN /\ files' = files
                  /\ objects' = x.objects
                  /\ writers' = [writers EXCEPT ![i] = x.w]
                  /\ ret' = [r0 EXCEPT !.err = x.err]
             ELSE /\ files' = c.files
                  /\ objects' = c.objects
                  /\ writers' = [writers EXCEPT ![i] =
                       [Delegated(c.w, "Commit", c.err) EXCEPT
                          !.hFailed = IF ok /\ dbok THEN @ ELSE @ + 1,
                          !.hTerm = IF @ = "" /\ c.w.committed
                                    THEN "committed" ELSE @]]
                  /\ ret' = [r0 EXCEPT !.err = c.err]

\* bufferedWriter.Close: Flush, and fw.Close if that returned no error.
BufferedClose(i, f, ok, dbok) ==
  /\ i <= Len(writers)
  /\ \E w \in {writers[i]} :
     \E x \in {bufioFlush(Buffered(w, f), "Close")} :
       LET same == [err |-> Nil, w |-> x.w, files |-> files,
                    objects |-> x.objects]
           c == IF x.w.closed THEN [same EXCEPT !.err = errClosed]
                ELSE IF ~x.w.committed /\ ~x.w.cancelled
                THEN CommitResultOn(files, x.objects, x.w, ok, FALSE, dbok)
                ELSE same
           r0 == [NoRet EXCEPT !.op = "BufferedClose", !.wid = i,
                               !.path = w.fullPath, !.term = w.hTerm,
                               !.writes = Len(x.w.hRaw) - Len(w.hRaw)]
       IN /\ Count(f # "none" \/ ~ok \/ ~dbok)
          /\ f # "none" => (w.bw # <<>> /\ w.bwErr = Nil /\ ok /\ dbok)
          /\ (~ok \/ ~dbok) => (x.err = Nil /\ CommitReachesSwift(w))
          /\ ~dbok => ok
          /\ segments' = x.segments
          /\ UNCHANGED nextLoc
          /\ IF x.err # Nil
             THEN /\ files' = files
                  /\ objects' = x.objects
                  /\ writers' = [writers EXCEPT ![i] = x.w]
                  /\ ret' = [r0 EXCEPT !.err = x.err]
             ELSE /\ files' = c.files
                  /\ objects' = c.objects
                  /\ writers' = [writers EXCEPT ![i] =
                       [Delegated(c.w, "Close", c.err) EXCEPT
                          !.hTerm = IF @ = "" /\ c.err = Nil
                                    THEN "closed" ELSE @]]
                  /\ ret' = [r0 EXCEPT !.err = c.err]

\* bufferedWriter.Cancel: Flush, and fw.Cancel if that returned no error.
BufferedCancel(i, f, budget) ==
  /\ i <= Len(writers)
  /\ \E w \in {writers[i]} :
     \E x \in {bufioFlush(Buffered(w, f), "Cancel")} :
       LET st == DriverDelete([Stores(budget, FALSE) EXCEPT
                                 !.objects = x.objects,
                                 !.segments = x.segments],
                              w.fullPath)
           r0 == [NoRet EXCEPT !.op = "BufferedCancel", !.wid = i,
                               !.path = w.fullPath, !.term = w.hTerm,
                               !.writes = Len(x.w.hRaw) - Len(w.hRaw)]
       IN /\ Count(f # "none" \/ budget = 0)
          /\ f # "none" => (w.bw # <<>> /\ w.bwErr = Nil /\ budget # 0)
          /\ budget = 0 => (x.err = Nil /\ ~w.closed /\ st.err # Nil)
          /\ UNCHANGED nextLoc
          /\ IF x.err # Nil
             THEN /\ files' = files
                  /\ objects' = x.objects
                  /\ segments' = x.segments
                  /\ writers' = [writers EXCEPT ![i] = x.w]
                  /\ ret' = [r0 EXCEPT !.err = x.err]
             ELSE IF x.w.closed
             THEN /\ files' = files
                  /\ objects' = x.objects
                  /\ segments' = x.segments
                  /\ writers' = [writers EXCEPT ![i] =
                       Delegated(x.w, "Cancel", errClosed)]
                  /\ ret' = [r0 EXCEPT !.err = errClosed]
             ELSE /\ files' = st.files
                  /\ objects' = st.objects
                  /\ segments' = st.segments
                  /\ writers' = [writers EXCEPT ![i] =
                       [Delegated(x.w, "Cancel", st.err) EXCEPT
                          !.cancelled = TRUE, !.segments = <<>>,
                          !.hTerm = IF @ = "" THEN "cancelled" ELSE @]]
                  /\ ret' = [r0 EXCEPT !.err = st.err]

\* A fourth starting point: Driver.Writer has been called on /b where no
\* row was.  From here the calls are those on the bufferedWriter it
\* returned.
InitBuffered ==
  /\ files = {}
  /\ segments = {}
  /\ objects = [k \in {} |-> 0]
  /\ nextLoc = 1
  /\ todo = MaxOps + 1
  /\ faults = 0
  /\ ret = NoRet
  /\ writers = << [NewWriter(PairPath, LocNames[1], <<>>, FALSE, NoRows)
                     EXCEPT !.hOpenedAt = todo] >>

NextBuffered ==
  \/ \E i \in 1..MaxWriters, data \in BufData, f \in RawFaults :
       BufferedWrite(i, data, f)
  \/ \E i \in 1..MaxWriters, f \in RawFaults,
        ok \in BOOLEAN, dbok \in BOOLEAN :
       BufferedCommit(i, f, ok, dbok)
  \/ \E i \in 1..MaxWriters, f \in RawFaults,
        ok \in BOOLEAN, dbok \in BOOLEAN :
       BufferedClose(i, f, ok, dbok)
  \/ \E i \in 1..MaxWriters, f \in RawFaults, b \in DeleteBudgets :
       BufferedCancel(i, f, b)

SpecBuffered == InitBuffered /\ [][NextBuffered]_vars

\* The calls this step added to the log of the calls on the plusWriter.
NewRaw(i) ==
  SubSeq(writers'[i].hRaw, Len(writers[i].hRaw) + 1, Len(writers'[i].hRaw))

IsSuffix(t, d) ==
  Len(t) <= Len(d) /\ SubSeq(d, Len(d) - Len(t) + 1, Len(d)) = t

\* The bytes of the raw writes of a log, in order.
RECURSIVE WrittenBytes(_)
WrittenBytes(log) ==
  IF log = <<>> THEN <<>>
  ELSE (IF Head(log).call = "Write" THEN Head(log).bytes ELSE <<>>)
         \o WrittenBytes(Tail(log))

\* The plusWriter method a call on the bufferedWriter ends with.
RawCallOf(op) ==
  IF op = "BufferedCommit" THEN "Commit"
  ELSE IF op = "BufferedClose" THEN "Close"
  ELSE "Cancel"

\* Close, Commit and Cancel of the bufferedWriter: with an error kept from an
\* earlier write nothing is called on the plusWriter and that error is
\* returned; with an empty buffer the plusWriter's method is the only call
\* and its error is returned; otherwise the first call is one raw write of
\* all the buffered bytes, and either it failed, nothing else is called, the
\* writer's flags and `files` stay and its error is returned, or it
\* succeeded, the buffer is empty, the plusWriter's method is called next
\* and its error is returned.
FlushThenDelegate(i) ==
  LET w == writers[i]
      new == NewRaw(i)
      call == RawCallOf(ret'.op)
  IN IF w.bwErr # Nil
     THEN new = <<>> /\ ret'.err = w.bwErr
     ELSE IF w.bw = <<>>
     THEN Len(new) = 1 /\ new[1].call = call /\ ret'.err = new[1].err
     ELSE /\ Len(new) >= 1
          /\ new[1].call = "Write" /\ new[1].bytes = w.bw
          /\ Len(w.bw) <= ChunkSize
          /\ IF new[1].err # Nil
             THEN /\ Len(new) = 1
                  /\ ret'.err = new[1].err
                  /\ files' = files
                  /\ writers'[i].committed = w.committed
                  /\ writers'[i].cancelled = w.cancelled
                  /\ writers'[i].closed = w.closed
             ELSE /\ Len(new) = 2
                  /\ new[2].call = call
                  /\ ret'.err = new[2].err
                  /\ writers'[i].bw = <<>>

\* After a Commit of the bufferedWriter that returned no error, every raw
\* write in the log succeeded and their bytes, in order, are the bytes the
\* caller passed to Write.
DeliveredIsSupplied(i) ==
  (ret'.op = "BufferedCommit" /\ ret'.err = Nil)
    => /\ \A k \in 1..Len(writers'[i].hRaw) :
            writers'[i].hRaw[k].call = "Write"
              => writers'[i].hRaw[k].err = Nil
       /\ WrittenBytes(writers'[i].hRaw) = writers'[i].hSupplied

\* A step that is a call on the bufferedWriter of writer i.
BufferedCallOn(i) ==
  /\ i <= Len(writers)
  /\ todo' = todo - 1
  /\ ret'.wid = i
  /\ ret'.op \in {"BufferedWrite", "BufferedCommit", "BufferedClose",
                  "BufferedCancel"}

\* C25 as claimed: every raw write made during a Write of the bufferedWriter
\* passes exactly ChunkSize bytes; Close, Commit and Cancel flush all the
\* buffered bytes in one raw write first and call the plusWriter's method
\* only if that succeeded, else return the flush's error; after a Commit
\* that succeeded the bytes of the raw writes are the bytes supplied.
C25_RawWritesOfChunkSize ==
  [][\A i \in 1..MaxWriters :
       BufferedCallOn(i) =>
         /\ ret'.op = "BufferedWrite" =>
              \A k \in 1..Len(NewRaw(i)) :
                /\ NewRaw(i)[k].call = "Write"
                /\ Len(NewRaw(i)[k].bytes) = ChunkSize
         /\ ret'.op # "BufferedWrite" => FlushThenDelegate(i)
         /\ DeliveredIsSupplied(i)
    ]_vars

\* C25 amended: a raw write made during a Write of the bufferedWriter passes
\* exactly ChunkSize bytes, or, as the last raw write of the call, more
\* than ChunkSize bytes that are all that was left of the caller's data
\* when nothing was buffered; the rest as claimed.
C25_RawWritesOfChunkSizeOrLonger ==
  [][\A i \in 1..MaxWriters :
       BufferedCallOn(i) =>
         /\ ret'.op = "BufferedWrite" =>
              \A k \in 1..Len(NewRaw(i)) :
                /\ NewRaw(i)[k].call = "Write"
                /\ \/ Len(NewRaw(i)[k].bytes) = ChunkSize
                   \/ /\ Len(NewRaw(i)[k].bytes) > ChunkSize
                      /\ k = Len(NewRaw(i))
                      /\ IsSuffix(NewRaw(i)[k].bytes, ret'.data)
                      /\ (k = 1 /\ writers[i].bw = <<>>)
                           => NewRaw(i)[k].bytes = ret'.data
         /\ ret'.op # "BufferedWrite" => FlushThenDelegate(i)
         /\ DeliveredIsSupplied(i)
    ]_vars

\* Write of three bytes with nothing buffered, of one byte, of two bytes,
\* then Commit: a raw write of the three bytes, one of a full buffer, and
\* the flush of the last byte before plusWriter.Commit.
C25_Witness ==
  /\ Len(writers) = 1
  /\ ret.op = "BufferedCommit" /\ ret.err = Nil
  /\ writers[1].committed
  /\ writers[1].hSupplied = <<4, 5, 6, 1, 2, 3>>
  /\ Len(writers[1].hRaw) = 4
  /\ writers[1].hRaw[1].bytes = <<4, 5, 6>>
  /\ writers[1].hRaw[2].bytes = <<1, 2>>
  /\ writers[1].hRaw[3].bytes = <<3>>
  /\ writers[1].hRaw[3].during = "Commit"
  /\ writers[1].hRaw[4].call = "Commit"
  /\ GetContent(PairPath).data = writers[1].hSupplied

---------------------------------------------------------------------------

\* C26: Delete is called on a directory, no request having failed before.
\* After each DELETE statement of
\* the call, every row left below the directory whose parent had a row
\* before the call still has that parent's row, and the rows the call
\* leaves at the end are those after its last statement; when the call
\* returns an error, the row of the directory is still there.
C26_ChildrenBeforeParent ==
  [][\A p \in Paths :
       (/\ todo' = todo - 1 /\ faults = 0
        /\ ret'.op = "Delete" /\ ret'.path = p
        /\ Tier(readFileInfo(files, p)) = "dir")
         => LET st == DriverDelete(
                        Stores(IF ret'.err = Nil THEN -1 ELSE 0, FALSE), p)
            IN /\ files' = st.files
               /\ \A k \in 1..Len(st.steps) :
                    \A r \in st.steps[k] :
                      (Below(p, FiPath(r)) /\ HasRow(files, Dir(FiPath(r))))
                        => HasRow(st.steps[k], Dir(FiPath(r)))
               /\ ret'.err # Nil => HasRow(files', p)
    ]_vars

\* C27: a writer has committed and the row of its path has its location.
\* A later Write, Commit, Cancel or Close on that writer, in a behaviour
\* without a failed request, leaves the row of the path, every object
\* there was under the writer's location and what GetContent returns for
\* the path as they were.
C27_CommittedFileStays ==
  [][\A i \in 1..MaxWriters :
       (/\ i <= Len(writers)
        /\ writers[i].committed
        /\ readFileInfo(files, writers[i].fullPath).Location
             = writers[i].location
        /\ todo' = todo - 1 /\ faults' = 0
        /\ ret'.wid = i
        /\ ret'.op \in {"Write", "Commit", "Cancel", "Close"})
         => /\ readFileInfo(files', writers[i].fullPath)
                 = readFileInfo(files, writers[i].fullPath)
            /\ \A n \in ObjectsUnder(objects, writers[i].location) :
                 n \in DOMAIN objects' /\ objects'[n] = objects[n]
            /\ GetContent(writers[i].fullPath)'
                 = GetContent(writers[i].fullPath)
    ]_vars

\* The buffers of a list one after the other.
RECURSIVE Flatten(_)
Flatten(bufs) ==
  IF bufs = <<>> THEN <<>> ELSE Head(bufs) \o Flatten(Tail(bufs))

\* C28: a writer was opened with append on a file that held content (inline
\* or in Swift, however it was stored), every call on it since was a Write
\* that succeeded (at least one) and then a Commit that succeeded, no other
\* call was made in between and no request has failed.  Then GetContent of
\* the path returns what the file held followed by the buffers written, and
\* Stat reports the sum of the two lengths.
C28_AppendKeepsPreviousContent ==
  \A i \in 1..MaxWriters :
    (/\ i <= Len(writers)
     /\ ret.op = "Commit" /\ ret.wid = i /\ ret.err = Nil
     /\ faults = 0
     /\ writers[i].hAppend
     /\ writers[i].hPrev \in {"inline", "external"}
     /\ writers[i].hBase.err = Nil
     /\ Len(writers[i].hBase.data) > 0
     /\ Len(writers[i].hBufs) >= 1
     /\ writers[i].hCalls = Len(writers[i].hBufs) + 1
     /\ writers[i].hOpenedAt - todo = writers[i].hCalls)
      => /\ GetContent(writers[i].fullPath).err = Nil
         /\ GetContent(writers[i].fullPath).data
              = writers[i].hBase.data \o Flatten(writers[i].hBufs)
         /\ Stat(writers[i].fullPath).size
              = Len(writers[i].hBase.data) + Len(Flatten(writers[i].hBufs))

\* Number, size and hash of each entry of a list of segments or rows.
Entries(list) ==
  [k \in 1..Len(list) |->
     [Number |-> list[k].Number, SizeBytes |-> list[k].SizeBytes,
      Hash |-> list[k].Hash]]

\* C29: after every step the segment list of each open writer has the
\* numbers, sizes and hashes of the rows of `segments` for the writer's
\* location, in order; and a Write that returns an error returns 0 bytes
\* and leaves the writer's list and `segments` as they were.
C29_ListEqualsSegmentRecords ==
  [][\A i \in 1..MaxWriters :
       /\ (i <= Len(writers') /\ IsOpen(writers'[i]))
            => Entries(writers'[i].segments)
                 = Entries(readSegmentInfo(segments', writers'[i].location))
       /\ (/\ i <= Len(writers)
           /\ todo' = todo - 1
           /\ ret'.op = "Write" /\ ret'.wid = i /\ ret'.err # Nil)
            => /\ ret'.n = 0
               /\ writers'[i].segments = writers[i].segments
               /\ segments' = segments
    ]_vars

=============================================================================
